---- MODULE Spec2Model ----
(***************************************************************************)
(* Model of the SGP41 driver (src/adafruit_sgp40/__init__.py): the CRC8    *)
(* codec, the tick converters, the word exchange _read_word_from_command,  *)
(* the bring-up sequence initialize()/_reset() and the measurement calls.  *)
(*                                                                         *)
(* A Python buffer is modelled by its bytes plus what decides its          *)
(* behaviour under item assignment and aliasing: whether it is a bytearray *)
(* (mutable) or a bytes object, and whether self._command_buffer and       *)
(* self._measure_command are the same object.                              *)
(***************************************************************************)
EXTENDS Integers, Sequences, FiniteSets, TLC

VARIABLES
    pc,               \* position of the running initialize(): next exchange, or "idle"
    constructed,      \* TRUE once __init__ has returned the object to its caller
    command_buffer,   \* bytes of the object self._command_buffer refers to
    cb_mutable,       \* that object is a bytearray (TRUE) or a bytes object (FALSE)
    cb_alias,         \* self._command_buffer is self._measure_command
    measure_command,  \* bytes of the object self._measure_command refers to
    mc_mutable,       \* that object is a bytearray (TRUE) or bytes (FALSE)
    voc_algorithm,    \* <<>> for None, else <<number of process calls made>>
    op,               \* the public call in progress, or the last one finished
    args,             \* the arguments of that call
    step,             \* the exchange made last ("none" when the call made none)
    outcome,          \* "running", "returned", or the exception raised to the caller
    detail,           \* the value returned, or the value carried by the exception
    bus,              \* bus and sleep events of the current (or last) call, in order
    reply,            \* bytes the transport delivered in the last exchange
    words,            \* words the last exchange returned (<<>> when it raised)
    exc,              \* exception the last exchange raised inside the call, or "none"
    init_failed,      \* a run of initialize() on this object raised, none succeeded since
    last_comp         \* <<>> or <<t, rh>>: arguments of the last compensate()

vars == << pc, constructed, command_buffer, cb_mutable, cb_alias, measure_command,
           mc_mutable, voc_algorithm, op, args, step, outcome, detail, bus, reply,
           words, exc, init_failed, last_comp >>

----------------------------------------------------------------------------
(* Bounds of the model (inputs and counters). *)

\* the Index Algorithm's state is the number of process calls, counted up to this
MaxProcess == 1

\* temperatures and humidities given to compensate()
Temps == {-10, 25}
Hums == {50}

\* raw values given to measure_index()
Raws == {-1, 100}

\* integer temperatures -MaxAbsTemp..MaxAbsTemp and humidities
\* -MaxAbsHumidity..MaxAbsHumidity given to the tick converters on their own
MaxAbsTemp == 200
MaxAbsHumidity == 200

\* reply words of the first group of a reply: 0..MaxWord (every setting of the
\* two self-test bits) and the SGP41 feature set; and words of the later groups
MaxWord == 3
InWords == (0..MaxWord) \cup {576}
TailWords == {1, 54272}

----------------------------------------------------------------------------
(* Python integer operators on naturals. *)

RECURSIVE BitXor(_, _)
BitXor(a, b) ==
    IF a = 0 THEN b
    ELSE IF b = 0 THEN a
    ELSE (((a % 2) + (b % 2)) % 2) + 2 * BitXor(a \div 2, b \div 2)

RECURSIVE BitAnd(_, _)
BitAnd(a, b) ==
    IF a = 0 \/ b = 0 THEN 0
    ELSE ((a % 2) * (b % 2)) + 2 * BitAnd(a \div 2, b \div 2)

\* int(n / d) for d > 0: Python's int() truncates towards zero
TruncDiv(n, d) == IF n >= 0 THEN n \div d ELSE -((-n) \div d)

\* x & m for a mask m = 2^k - 1 and any integer x (two's complement)
Mask(x, m) == x % (m + 1)

----------------------------------------------------------------------------
(* Module constants. *)

WORD_LEN == 2

READ_CMD == << 38, 25, 128, 0, 162, 102, 102, 147 >>

CONDITIONING_CMD == << 38, 18, 128, 0, 162, 102, 102, 147 >>

----------------------------------------------------------------------------
(* CRC8 codec. *)

\* one pass of the inner loop: the accumulator is not masked here
CrcShift(crc) ==
    IF BitAnd(crc, 128) # 0 THEN BitXor(crc * 2, 49) ELSE crc * 2

RECURSIVE CrcShifts(_, _)
CrcShifts(crc, n) == IF n = 0 THEN crc ELSE CrcShifts(CrcShift(crc), n - 1)

RECURSIVE CrcLoop(_, _, _)
CrcLoop(crc, crc_buffer, i) ==
    IF i > Len(crc_buffer) THEN crc
    ELSE CrcLoop(CrcShifts(BitXor(crc, crc_buffer[i]), 8), crc_buffer, i + 1)

\* as generate_crc, without the mask on the value returned
generate_crc_Unmasked(crc_buffer) == CrcLoop(255, crc_buffer, 1)

generate_crc(crc_buffer) == BitAnd(CrcLoop(255, crc_buffer, 1), 255)

\* generate_crc tabulated once for the data words the transport can deliver
DataWords == { << w \div 256, w % 256 >> : w \in InWords \cup TailWords }
CrcTable == [d \in DataWords |-> generate_crc(d)]

\* self._generate_crc(crc_buffer), looked up when tabulated
Crc(crc_buffer) ==
    IF crc_buffer \in DataWords THEN CrcTable[crc_buffer] ELSE generate_crc(crc_buffer)

check_crc8(crc_buffer, crc_value) == crc_value = Crc(crc_buffer)

----------------------------------------------------------------------------
(* Tick converters (integer-valued inputs). *)

\* as celsius_to_ticks, had the quotient been floored (math.floor, //)
celsius_to_ticks_Floor(temperature) ==
    LET temp_ticks == Mask(((temperature + 45) * 65535) \div 175, 65535)
    IN  << BitAnd(temp_ticks \div 256, 255), BitAnd(temp_ticks, 255) >>

celsius_to_ticks(temperature) ==
    LET temp_ticks == Mask(TruncDiv((temperature + 45) * 65535, 175), 65535)
    IN  << BitAnd(temp_ticks \div 256, 255), BitAnd(temp_ticks, 255) >>

\* as relative_humidity_to_ticks, had the quotient been floored
relative_humidity_to_ticks_Floor(humidity) ==
    LET humidity_ticks == Mask((2 * humidity * 65535 + 100) \div 200, 65535)
    IN  << BitAnd(humidity_ticks \div 256, 255), BitAnd(humidity_ticks, 255) >>

\* int(h * 65535 / 100 + 0.5) = int((2 * h * 65535 + 100) / 200)
relative_humidity_to_ticks(humidity) ==
    LET humidity_ticks == Mask(TruncDiv(2 * humidity * 65535 + 100, 200), 65535)
    IN  << BitAnd(humidity_ticks \div 256, 255), BitAnd(humidity_ticks, 255) >>

\* as CompensatedCmd, with the temperature word put before the humidity word
CompensatedCmdTempFirst(temperature, relative_humidity) ==
    LET humidity_ticks == relative_humidity_to_ticks(relative_humidity)
        temp_ticks == celsius_to_ticks(temperature)
    IN  << 38, 25 >> \o temp_ticks \o << generate_crc(temp_ticks) >>
                     \o humidity_ticks \o << generate_crc(humidity_ticks) >>

\* the frame compensate() builds
CompensatedCmd(temperature, relative_humidity) ==
    LET humidity_ticks == relative_humidity_to_ticks(relative_humidity)
        temp_ticks == celsius_to_ticks(temperature)
    IN  << 38, 25 >> \o humidity_ticks \o << generate_crc(humidity_ticks) >>
                     \o temp_ticks \o << generate_crc(temp_ticks) >>

----------------------------------------------------------------------------
(* The transport: what a bus exchange can meet. *)

NoError == "none"
OSError == "OSError"
TypeError == "TypeError"
CrcError == "CRC check failed while reading data"
SerialError == "Serial number does not match"
FeatureError == "Feature set does not match"
VocTestError == "VOC self test failed"
NoxTestError == "NOX self test failed"

\* a reply group for word w: its two bytes and a CRC byte, right or corrupted
Group(w, good) ==
    LET data == << w \div 256, w % 256 >>
        crc == generate_crc(data)
    IN  data \o << IF good THEN crc ELSE (crc + 1) % 256 >>

FirstGroups == { Group(w, g) : w \in InWords, g \in BOOLEAN }
TailGroups == { Group(w, g) : w \in TailWords, g \in BOOLEAN }

Replies1 == FirstGroups
Replies2 == { a \o b : a \in FirstGroups, b \in TailGroups }
Replies3 == { a \o b \o c : a \in FirstGroups, b \in TailGroups, c \in TailGroups }

Replies(readlen) ==
    IF readlen = 1 THEN Replies1 ELSE IF readlen = 2 THEN Replies2 ELSE Replies3

\* the write fails, or the read fails, or the read fills the buffer with data
Transports(readlen) ==
    { [w |-> FALSE, r |-> FALSE, data |-> << >>],
      [w |-> TRUE, r |-> FALSE, data |-> << >>] }
    \cup { [w |-> TRUE, r |-> TRUE, data |-> d] : d \in Replies(readlen) }

WriteEv(data, ok) == [ev |-> "write", data |-> data, arg |-> Len(data), ok |-> ok]
SleepEv(ms) == [ev |-> "sleep", data |-> << >>, arg |-> ms, ok |-> TRUE]
ReadEv(n, ok) == [ev |-> "read", data |-> << >>, arg |-> n, ok |-> ok]

----------------------------------------------------------------------------
(* _read_word_from_command *)

\* as SleepFor, had the seconds been rounded to no decimals
SleepForWholeSeconds(delay_ms) == SleepEv(((delay_ms + 500) \div 1000) * 1000)

\* sleep(round(delay_ms * 0.001, 3)): seconds to three decimals, held in ms
SleepFor(delay_ms) == SleepEv(delay_ms)

\* as DecodeLoop, had the CRC been checked for the first group only
RECURSIVE DecodeLoopFirstOnly(_, _, _, _)
DecodeLoopFirstOnly(replybuffer, i, replylen, readdata_buffer) ==
    IF i >= replylen THEN [exc |-> NoError, words |-> readdata_buffer]
    ELSE IF i = 0 /\ ~check_crc8(SubSeq(replybuffer, i + 1, i + 2), replybuffer[i + 3])
         THEN [exc |-> CrcError, words |-> << >>]
         ELSE DecodeLoopFirstOnly(replybuffer, i + 3, replylen,
                                  Append(readdata_buffer,
                                         replybuffer[i + 1] * 256 + replybuffer[i + 2]))

\* the loop over the reply's 3-byte groups; i counts bytes from 0
RECURSIVE DecodeLoop(_, _, _, _)
DecodeLoop(replybuffer, i, replylen, readdata_buffer) ==
    IF i >= replylen THEN [exc |-> NoError, words |-> readdata_buffer]
    ELSE IF ~check_crc8(SubSeq(replybuffer, i + 1, i + 2), replybuffer[i + 3])
         THEN [exc |-> CrcError, words |-> << >>]
         ELSE DecodeLoop(replybuffer, i + 3, replylen,
                         Append(readdata_buffer,
                                replybuffer[i + 1] * 256 + replybuffer[i + 2]))

\* as read_word_from_command, had a failed write been tried once more
read_word_from_command_RetryWrite(buf, delay_ms, readlen, t) ==
    LET replylen == readlen * (WORD_LEN + 1)
        again == << WriteEv(buf, TRUE), SleepFor(delay_ms) >>
        retried == IF t.w THEN << >> ELSE << WriteEv(buf, FALSE) >>
    IN  IF ~t.r
        THEN [bus |-> retried \o again \o << ReadEv(replylen, FALSE) >>,
              exc |-> OSError, words |-> << >>]
        ELSE LET dec == DecodeLoop(t.data, 0, replylen, << >>)
             IN  [bus |-> again \o << ReadEv(replylen, TRUE) >>,
                  exc |-> dec.exc, words |-> dec.words]

\* the whole exchange against transport behaviour t: its events, the exception
\* it raises (NoError when it returns) and the words it returns
read_word_from_command(buf, delay_ms, readlen, t) ==
    LET replylen == readlen * (WORD_LEN + 1)
    IN  IF ~t.w
        THEN [bus |-> << WriteEv(buf, FALSE) >>, exc |-> OSError, words |-> << >>]
        ELSE IF ~t.r
        THEN [bus |-> << WriteEv(buf, TRUE), SleepFor(delay_ms), ReadEv(replylen, FALSE) >>,
              exc |-> OSError, words |-> << >>]
        ELSE LET dec == DecodeLoop(t.data, 0, replylen, << >>)
             IN  [bus |-> << WriteEv(buf, TRUE), SleepFor(delay_ms), ReadEv(replylen, TRUE) >>,
                  exc |-> dec.exc, words |-> dec.words]

----------------------------------------------------------------------------
(* Item assignment into self._command_buffer. *)

\* self._command_buffer[0] = b0; self._command_buffer[1] = b1
Poked(b0, b1) == << b0, b1 >> \o SubSeq(command_buffer, 3, Len(command_buffer))

\* the exception classes caught by _reset: except (OSError, RuntimeError)
ExcClass(e) ==
    IF e \in {OSError, TypeError} THEN e ELSE "RuntimeError"

\* as Caught, had _reset caught OSError alone
CaughtOSErrorOnly(e) == ExcClass(e) = "OSError"

Caught(e) == ExcClass(e) \in {"OSError", "RuntimeError"}

----------------------------------------------------------------------------
(* The checks of initialize() on the words read. *)

\* as SerialCheck, with the comparison inverted
SerialCheckInverted(serialnumber) ==
    IF serialnumber[1] = 0 THEN SerialError ELSE NoError

SerialCheck(serialnumber) ==
    IF serialnumber[1] # 0 THEN SerialError ELSE NoError

\* as FeatureCheck, with the SGP40's feature set 0x3220 expected
FeatureCheckSGP40(featureset) ==
    IF featureset[1] # 12832 THEN FeatureError ELSE NoError

FeatureCheck(featureset) ==
    IF featureset[1] # 576 THEN FeatureError ELSE NoError

\* as SelfTestCheck, with the NOx bit tested first (and against its own value)
SelfTestCheckNoxFirst(self_test) ==
    IF BitAnd(self_test[1], 2) = 2 THEN NoxTestError
    ELSE IF BitAnd(self_test[1], 1) = 1 THEN VocTestError
    ELSE NoError

\* Python reads  x & 0b10 == 1  as  (x & 0b10) == 1
SelfTestCheck(self_test) ==
    IF BitAnd(self_test[1], 1) = 1 THEN VocTestError
    ELSE IF BitAnd(self_test[1], 2) = 1 THEN NoxTestError
    ELSE NoError

----------------------------------------------------------------------------
(* State after __init__ has set the fields, at its call of initialize(). *)

Init ==
    /\ pc = "serial"
    /\ constructed = FALSE
    /\ command_buffer = << 0, 0 >>
    /\ cb_mutable = TRUE
    /\ cb_alias = FALSE
    /\ measure_command = READ_CMD
    /\ mc_mutable = FALSE
    /\ voc_algorithm = << >>
    /\ op = "construct"
    /\ args = << >>
    /\ step = "none"
    /\ outcome = "running"
    /\ detail = << >>
    /\ bus = << >>
    /\ reply = << >>
    /\ words = << >>
    /\ exc = NoError
    /\ init_failed = FALSE
    /\ last_comp = << >>

\* the caller constructs the device object again after __init__ raised
Construct ==
    /\ pc = "idle"
    /\ ~constructed
    /\ pc' = "serial"
    /\ constructed' = FALSE
    /\ command_buffer' = << 0, 0 >>
    /\ cb_mutable' = TRUE
    /\ cb_alias' = FALSE
    /\ measure_command' = READ_CMD
    /\ mc_mutable' = FALSE
    /\ voc_algorithm' = << >>
    /\ op' = "construct"
    /\ args' = << >>
    /\ step' = "none"
    /\ outcome' = "running"
    /\ detail' = << >>
    /\ bus' = << >>
    /\ reply' = << >>
    /\ words' = << >>
    /\ exc' = NoError
    /\ init_failed' = FALSE
    /\ last_comp' = << >>

\* as Callable, had __init__ returned the object whatever initialize() did
CallableUnconstructed == pc = "idle"

\* a caller holds the object only once __init__ has returned it, and the
\* driver is synchronous: a call starts when no call is in progress
Callable == pc = "idle" /\ constructed

\* the caller calls initialize() on the constructed object
CallInitialize ==
    /\ Callable
    /\ pc' = "serial"
    /\ op' = "initialize"
    /\ args' = << >>
    /\ step' = "none"
    /\ outcome' = "running"
    /\ detail' = << >>
    /\ bus' = << >>
    /\ reply' = << >>
    /\ words' = << >>
    /\ exc' = NoError
    /\ UNCHANGED << constructed, command_buffer, cb_mutable, cb_alias,
                    measure_command, mc_mutable, voc_algorithm, init_failed,
                    last_comp >>

\* the check initialize() makes on the words of step this
CheckOf(this, read_words) ==
    IF this = "serial" THEN SerialCheck(read_words)
    ELSE IF this = "feature" THEN FeatureCheck(read_words)
    ELSE SelfTestCheck(read_words)

\* one step of initialize(): set the opcode, exchange, check the words
InitStep(this, b0, b1, delay_ms, readlen, next) ==
    /\ pc = this
    /\ IF ~cb_mutable
       THEN \* item assignment into a bytes object
            /\ pc' = "idle"
            /\ outcome' = TypeError
            /\ detail' = << >>
            /\ init_failed' = TRUE
            /\ UNCHANGED << command_buffer, measure_command, bus, reply, words,
                            exc, step >>
       ELSE \E t \in Transports(readlen) :
              LET buf == Poked(b0, b1)
                  x == read_word_from_command(buf, delay_ms, readlen, t)
                  err == IF x.exc # NoError THEN x.exc ELSE CheckOf(this, x.words)
              IN  /\ command_buffer' = buf
                  /\ measure_command' = IF cb_alias THEN buf ELSE measure_command
                  /\ bus' = bus \o x.bus
                  /\ reply' = t.data
                  /\ words' = x.words
                  /\ exc' = x.exc
                  /\ step' = this
                  /\ IF err = NoError
                     THEN /\ pc' = next
                          /\ UNCHANGED << outcome, detail, init_failed >>
                     ELSE /\ pc' = "idle"
                          /\ outcome' = err
                          /\ init_failed' = TRUE
                          /\ detail' = IF err = FeatureError THEN << x.words[1] >>
                                       ELSE << >>
    /\ UNCHANGED << constructed, cb_mutable, cb_alias, mc_mutable, voc_algorithm,
                    op, args, last_comp >>

InitSerial == InitStep("serial", 54, 130, 1, 3, "feature")

InitFeature == InitStep("feature", 32, 47, 10, 1, "selftest")

InitSelfTest == InitStep("selftest", 40, 14, 500, 1, "reset")

\* _reset(), and the return of initialize() (and of __init__) after it
Reset ==
    /\ pc = "reset"
    /\ IF ~cb_mutable
       THEN /\ pc' = "idle"
            /\ outcome' = TypeError
            /\ detail' = << >>
            /\ init_failed' = TRUE
            /\ UNCHANGED << constructed, command_buffer, measure_command, bus,
                            reply, words, exc, step >>
       ELSE \E t \in Transports(1) :
              LET buf == Poked(0, 6)
                  x == read_word_from_command(buf, 50, 1, t)
              IN  /\ command_buffer' = buf
                  /\ measure_command' = IF cb_alias THEN buf ELSE measure_command
                  /\ reply' = t.data
                  /\ words' = x.words
                  /\ exc' = x.exc
                  /\ step' = "reset"
                  /\ pc' = "idle"
                  /\ detail' = << >>
                  /\ IF x.exc = NoError \/ Caught(x.exc)
                     THEN /\ bus' = bus \o x.bus \o << SleepEv(1000) >>
                          /\ outcome' = "returned"
                          /\ constructed' = TRUE
                          /\ init_failed' = FALSE
                     ELSE /\ bus' = bus \o x.bus
                          /\ outcome' = x.exc
                          /\ init_failed' = TRUE
                          /\ UNCHANGED constructed
    /\ UNCHANGED << cb_mutable, cb_alias, mc_mutable, voc_algorithm, op, args,
                    last_comp >>

----------------------------------------------------------------------------
(* Measurement calls on the constructed object. *)

\* a measurement call: self._command_buffer = cmd (an object that is the
\* measure command when alias), the exchange, then a new bytearray(2) and the
\* word at index ret (from 1) returned; an exception leaves the buffer swapped
Measure(name, cmd, mutable, alias, delay_ms, readlen, ret) ==
    /\ Callable
    /\ \E t \in Transports(readlen) :
         LET x == read_word_from_command(cmd, delay_ms, readlen, t)
         IN  /\ op' = name
             /\ args' = << >>
             /\ step' = name
             /\ bus' = x.bus
             /\ reply' = t.data
             /\ words' = x.words
             /\ exc' = x.exc
             /\ IF x.exc = NoError
                THEN /\ command_buffer' = << 0, 0 >>
                     /\ cb_mutable' = TRUE
                     /\ cb_alias' = FALSE
                     /\ outcome' = "returned"
                     /\ detail' = << x.words[ret] >>
                ELSE /\ command_buffer' = cmd
                     /\ cb_mutable' = mutable
                     /\ cb_alias' = alias
                     /\ outcome' = x.exc
                     /\ detail' = << >>
    /\ UNCHANGED << pc, constructed, measure_command, mc_mutable, voc_algorithm,
                    init_failed, last_comp >>

raw_VOC == Measure("raw_VOC", measure_command, mc_mutable, TRUE, 500, 1, 1)

\* as raw_NOX, had it returned read_value[0]
raw_NOX_FirstWord == Measure("raw_NOX", measure_command, mc_mutable, TRUE, 50, 2, 1)

raw_NOX == Measure("raw_NOX", measure_command, mc_mutable, TRUE, 50, 2, 2)

conditioning == Measure("conditioning", CONDITIONING_CMD, FALSE, FALSE, 50, 1, 1)

\* as compensate, had the frame been built in the recycled command buffer
compensate_IntoBuffer(temperature, relative_humidity) ==
    /\ Callable
    /\ measure_command' = CompensatedCmd(temperature, relative_humidity)
    /\ mc_mutable' = TRUE
    /\ command_buffer' = measure_command'
    /\ cb_mutable' = TRUE
    /\ cb_alias' = TRUE
    /\ last_comp' = << temperature, relative_humidity >>
    /\ op' = "compensate"
    /\ args' = << temperature, relative_humidity >>
    /\ step' = "none"
    /\ outcome' = "returned"
    /\ detail' = << >>
    /\ bus' = << >>
    /\ reply' = << >>
    /\ words' = << >>
    /\ exc' = NoError
    /\ UNCHANGED << pc, constructed, voc_algorithm, init_failed >>

compensate(temperature, relative_humidity) ==
    /\ Callable
    /\ measure_command' = CompensatedCmd(temperature, relative_humidity)
    /\ mc_mutable' = TRUE
    /\ cb_alias' = FALSE
    /\ last_comp' = << temperature, relative_humidity >>
    /\ op' = "compensate"
    /\ args' = << temperature, relative_humidity >>
    /\ step' = "none"
    /\ outcome' = "returned"
    /\ detail' = << >>
    /\ bus' = << >>
    /\ reply' = << >>
    /\ words' = << >>
    /\ exc' = NoError
    /\ UNCHANGED << pc, constructed, command_buffer, cb_mutable, voc_algorithm,
                    init_failed >>

\* the Index Algorithm is opaque: its state is the number of process calls
\* and the index it returns is any of IndexValues
IndexValues == {0, 500}

\* as measure_index, without the test of raw
measure_index_NoTest(raw) ==
    /\ Callable
    /\ LET algo == IF voc_algorithm = << >> THEN << 0 >> ELSE voc_algorithm
       IN  /\ algo[1] < MaxProcess
           /\ voc_algorithm' = << algo[1] + 1 >>
           /\ \E voc_index \in IndexValues : detail' = << voc_index >>
    /\ op' = "measure_index"
    /\ args' = << raw >>
    /\ step' = "none"
    /\ outcome' = "returned"
    /\ bus' = << >>
    /\ reply' = << >>
    /\ words' = << >>
    /\ exc' = NoError
    /\ UNCHANGED << pc, constructed, command_buffer, cb_mutable, cb_alias,
                    measure_command, mc_mutable, init_failed, last_comp >>

measure_index(raw) ==
    /\ Callable
    /\ LET algo == IF voc_algorithm = << >> THEN << 0 >> ELSE voc_algorithm
       IN  IF raw < 0
           THEN /\ voc_algorithm' = algo
                /\ detail' = << -1 >>
           ELSE /\ algo[1] < MaxProcess
                /\ voc_algorithm' = << algo[1] + 1 >>
                /\ \E voc_index \in IndexValues : detail' = << voc_index >>
    /\ op' = "measure_index"
    /\ args' = << raw >>
    /\ step' = "none"
    /\ outcome' = "returned"
    /\ bus' = << >>
    /\ reply' = << >>
    /\ words' = << >>
    /\ exc' = NoError
    /\ UNCHANGED << pc, constructed, command_buffer, cb_mutable, cb_alias,
                    measure_command, mc_mutable, init_failed, last_comp >>

Compensate == \E t \in Temps, rh \in Hums : compensate(t, rh)

MeasureIndex == \E raw \in Raws : measure_index(raw)

Next ==
    \/ Construct
    \/ CallInitialize
    \/ InitSerial
    \/ InitFeature
    \/ InitSelfTest
    \/ Reset
    \/ raw_VOC
    \/ raw_NOX
    \/ conditioning
    \/ Compensate
    \/ MeasureIndex

Spec == Init /\ [][Next]_vars

----------------------------------------------------------------------------
(* The static methods on their own: one call of _generate_crc,             *)
(* _celsius_to_ticks or _relative_humidity_to_ticks on any input.          *)

Bytes == 0..255

PureCalls ==
    { [f |-> "generate_crc", a |-> << b0, b1 >>] : b0 \in Bytes, b1 \in Bytes }
    \cup { [f |-> "celsius_to_ticks", a |-> << t >>] :
             t \in (-MaxAbsTemp)..MaxAbsTemp }
    \cup { [f |-> "relative_humidity_to_ticks", a |-> << rh >>] :
             rh \in (-MaxAbsHumidity)..MaxAbsHumidity }

\* a static method is about to be called with its arguments; no object is used
InitPure ==
    /\ \E c \in PureCalls : op = c.f /\ args = c.a
    /\ outcome = "running"
    /\ detail = << >>
    /\ pc = "idle"
    /\ constructed = FALSE
    /\ command_buffer = << 0, 0 >>
    /\ cb_mutable = TRUE
    /\ cb_alias = FALSE
    /\ measure_command = READ_CMD
    /\ mc_mutable = FALSE
    /\ voc_algorithm = << >>
    /\ step = "none"
    /\ bus = << >>
    /\ reply = << >>
    /\ words = << >>
    /\ exc = NoError
    /\ init_failed = FALSE
    /\ last_comp = << >>

\* the call returns value
PureReturn(value) ==
    /\ outcome = "running"
    /\ outcome' = "returned"
    /\ detail' = value
    /\ UNCHANGED << pc, constructed, command_buffer, cb_mutable, cb_alias,
                    measure_command, mc_mutable, voc_algorithm, op, args, step,
                    bus, reply, words, exc, init_failed, last_comp >>

CallGenerateCrc ==
    /\ op = "generate_crc"
    /\ PureReturn(<< generate_crc(args) >>)

CallCelsiusToTicks ==
    /\ op = "celsius_to_ticks"
    /\ PureReturn(celsius_to_ticks(args[1]))

CallHumidityToTicks ==
    /\ op = "relative_humidity_to_ticks"
    /\ PureReturn(relative_humidity_to_ticks(args[1]))

NextPure ==
    \/ CallGenerateCrc
    \/ CallCelsiusToTicks
    \/ CallHumidityToTicks

SpecPure == InitPure /\ [][NextPure]_vars

----------------------------------------------------------------------------
(* Vocabulary of the properties. *)

InitOps == {"construct", "initialize"}

MeasureOps == {"raw_VOC", "raw_NOX", "conditioning"}

SerialOpcode == << 54, 130 >>
FeatureOpcode == << 32, 47 >>
SelfTestOpcode == << 40, 14 >>
ResetOpcode == << 0, 6 >>

InitOrder == << SerialOpcode, FeatureOpcode, SelfTestOpcode, ResetOpcode >>

IsWrite(e) == e.ev = "write"

\* the write events of a log, in order, and the opcode a write starts with
WritesOf(b) == SelectSeq(b, IsWrite)
Opcode(e) == SubSeq(e.data, 1, 2)

\* the initialize() run in progress or just finished has written opcode o
Wrote(o) == \E i \in 1..Len(bus) : IsWrite(bus[i]) /\ Opcode(bus[i]) = o

\* the last exchange read a reply whose groups all passed the CRC check
Accepted == step # "none" /\ exc = NoError

----------------------------------------------------------------------------
(* C1: in every run of initialize() the commands written are, in this      *)
(* order and each at most once, get-serial-number, get-feature-set,        *)
(* self-test, reset; a command is written only after the reply to the one  *)
(* before it was read and accepted; and a non-zero first serial word ends  *)
(* the run with the identity error after the first command alone.          *)
C1_InitOrder ==
    op \in InitOps =>
        LET w == WritesOf(bus)
        IN  /\ Len(w) <= 4
            /\ \A i \in 1..Len(w) : Opcode(w[i]) = InitOrder[i]
            /\ \A i \in 2..Len(bus) :
                 IsWrite(bus[i]) => bus[i - 1].ev = "read" /\ bus[i - 1].ok
            /\ pc = "serial" => Len(w) = 0
            /\ pc = "feature" =>
                 step = "serial" /\ exc = NoError /\ words[1] = 0 /\ Len(w) = 1
            /\ pc = "selftest" =>
                 step = "feature" /\ exc = NoError /\ words[1] = 576 /\ Len(w) = 2
            /\ pc = "reset" => step = "selftest" /\ exc = NoError /\ Len(w) = 3
            /\ (step = "serial" /\ exc = NoError /\ words[1] # 0) =>
                 outcome = SerialError /\ pc = "idle" /\ Len(w) = 1

\* a run that wrote all four commands and returned
C1_Witness ==
    /\ op \in InitOps
    /\ step = "reset"
    /\ outcome = "returned"
    /\ Len(WritesOf(bus)) = 4

\* a run ended by a non-zero serial word
C1_MismatchSeen ==
    op \in InitOps /\ step = "serial" /\ exc = NoError /\ words[1] # 0

----------------------------------------------------------------------------
(* C2: a self-test word with bit 1 set and bit 0 clear, read with a valid  *)
(* CRC after the identity and feature checks passed, makes initialize()    *)
(* fail with "NOX self test failed": the run is over, no reset is written. *)
C2_NoxSelfTestFails ==
    ( /\ op \in InitOps
      /\ step = "selftest"
      /\ exc = NoError
      /\ BitAnd(words[1], 2) = 2
      /\ BitAnd(words[1], 1) = 0 )
    => (outcome = NoxTestError /\ pc = "idle" /\ ~Wrote(ResetOpcode))

----------------------------------------------------------------------------
(* C3: a self-test word with bit 0 set (bit 1 set or not) makes            *)
(* initialize() fail with "VOC self test failed", and no reset is written. *)
C3_VocSelfTestFirst ==
    ( /\ op \in InitOps
      /\ step = "selftest"
      /\ exc = NoError
      /\ BitAnd(words[1], 1) = 1 )
    => (outcome = VocTestError /\ pc = "idle" /\ ~Wrote(ResetOpcode))

\* the self-test word had both bits set
C3_Witness ==
    /\ op \in InitOps
    /\ step = "selftest"
    /\ exc = NoError
    /\ words = << 3 >>
    /\ outcome = VocTestError

----------------------------------------------------------------------------
(* C4: after the feature-set exchange initialize() goes on to the          *)
(* self-test exactly when the word read is 0x0240; for any other word it   *)
(* fails with the feature-set error carrying that word, and writes neither *)
(* the self-test nor the reset command.                                    *)
C4_FeatureGate ==
    (op \in InitOps /\ step = "feature" /\ exc = NoError) =>
        /\ (pc = "selftest") <=> (words[1] = 576)
        /\ words[1] # 576 =>
             /\ outcome = FeatureError
             /\ detail = << words[1] >>
             /\ pc = "idle"
             /\ ~Wrote(SelfTestOpcode)
             /\ ~Wrote(ResetOpcode)

\* a feature word other than 0x0240 was read
C4_Witness ==
    /\ op \in InitOps
    /\ step = "feature"
    /\ exc = NoError
    /\ words = << 3 >>
    /\ outcome = FeatureError

----------------------------------------------------------------------------
(* C5: once the self-test has passed, the reset step always ends the run   *)
(* with initialize() returning, whether the reset exchange failed on the   *)
(* write, on the read or on the CRC, and the last event of the run is the  *)
(* 1-second sleep.                                                         *)
C5_ResetSwallowed ==
    (op \in InitOps /\ step = "reset") =>
        /\ outcome = "returned"
        /\ pc = "idle"
        /\ constructed
        /\ bus[Len(bus)] = SleepEv(1000)
        /\ Len(WritesOf(bus)) = 4

\* the reset reply failed its CRC check and the run still returned
C5_Witness ==
    /\ op \in InitOps
    /\ step = "reset"
    /\ exc = CrcError
    /\ outcome = "returned"
    /\ bus[Len(bus)] = SleepEv(1000)

\* the reset write failed, and the read failed
C5_WriteFailSeen == op \in InitOps /\ step = "reset" /\ exc = OSError /\ ~bus[Len(bus) - 1].ok

----------------------------------------------------------------------------
FailedRun == op \in InitOps /\ outcome \notin {"running", "returned"}

----------------------------------------------------------------------------
(* C7: every raw_VOC and raw_NOX call writes the frame built from the      *)
(* arguments of the last compensate(), or the default frame when there was *)
(* none, whatever calls came in between.                                   *)
ExpectedFrame ==
    IF last_comp = << >> THEN READ_CMD
    ELSE CompensatedCmd(last_comp[1], last_comp[2])

C7_FramePersists ==
    op \in {"raw_VOC", "raw_NOX"} =>
        /\ IsWrite(bus[1])
        /\ bus[1].data = ExpectedFrame

----------------------------------------------------------------------------
(* C8: an exchange whose reply has a group with a wrong CRC byte, in any   *)
(* position, raises the CRC error and hands over no words; when all CRC    *)
(* bytes are right it hands over the word_count words, big-endian, in      *)
(* reply order.                                                            *)
WordCount == IF step = "serial" THEN 3 ELSE IF step = "raw_NOX" THEN 2 ELSE 1

GoodGroup(r, k) == r[3 * k] = Crc(<< r[3 * k - 2], r[3 * k - 1] >>)

WordAt(r, k) == r[3 * k - 2] * 256 + r[3 * k - 1]

C8_AllOrNothing ==
    (step # "none" /\ reply # << >>) =>
        /\ Len(reply) = 3 * WordCount
        /\ IF \A k \in 1..WordCount : GoodGroup(reply, k)
           THEN /\ exc = NoError
                /\ words = [k \in 1..WordCount |-> WordAt(reply, k)]
           ELSE /\ exc = CrcError
                /\ words = << >>
                /\ step # "reset" => outcome = CrcError /\ detail = << >>

\* only the middle group of a three-word reply was corrupted
C8_Witness ==
    /\ step = "serial"
    /\ reply # << >>
    /\ GoodGroup(reply, 1)
    /\ ~GoodGroup(reply, 2)
    /\ GoodGroup(reply, 3)
    /\ exc = CrcError

----------------------------------------------------------------------------
(* C9: raw_NOX reads two words (6 bytes) for the measure command and       *)
(* returns the second, and only when both CRC bytes are right; raw_VOC     *)
(* reads one word (3 bytes) and returns it.                                *)
C9_NoxSecondWord ==
    /\ (op = "raw_NOX" /\ outcome = "returned") =>
         /\ bus[1] = WriteEv(measure_command, TRUE)
         /\ bus[3] = ReadEv(6, TRUE)
         /\ Len(reply) = 6
         /\ GoodGroup(reply, 1)
         /\ GoodGroup(reply, 2)
         /\ detail = << WordAt(reply, 2) >>
    /\ (op = "raw_NOX" /\ reply # << >> /\ ~GoodGroup(reply, 1)) =>
         outcome = CrcError /\ detail = << >>
    /\ (op = "raw_VOC" /\ outcome = "returned") =>
         /\ bus[1] = WriteEv(measure_command, TRUE)
         /\ bus[3] = ReadEv(3, TRUE)
         /\ Len(reply) = 3
         /\ GoodGroup(reply, 1)
         /\ detail = << WordAt(reply, 1) >>

\* raw_NOX returned, and the two words of the reply differed
C9_Witness ==
    /\ op = "raw_NOX"
    /\ outcome = "returned"
    /\ WordAt(reply, 1) # WordAt(reply, 2)

\* raw_NOX failed on the CRC of the first word alone
C9_FirstWordSeen ==
    /\ op = "raw_NOX"
    /\ reply # << >>
    /\ ~GoodGroup(reply, 1)
    /\ GoodGroup(reply, 2)

----------------------------------------------------------------------------
(* C10: in every call each exchange is a write, then one sleep of that     *)
(* command's delay, then a read; a read has its write and sleep right      *)
(* before it, a write comes first or right after the read of the exchange  *)
(* before it, and a failed write is followed by no read.                   *)
InitDelays == << 1, 10, 500, 50 >>

\* the delay of the exchange whose write is the k-th write of a call of o
DelayOf(o, k) ==
    IF o = "raw_VOC" THEN 500
    ELSE IF o \in {"raw_NOX", "conditioning"} THEN 50
    ELSE InitDelays[k]

C10_WriteSleepRead ==
    \A i \in 1..Len(bus) :
        /\ bus[i].ev = "read" =>
             /\ i >= 3
             /\ bus[i - 1] = SleepEv(DelayOf(op, Len(WritesOf(SubSeq(bus, 1, i)))))
             /\ IsWrite(bus[i - 2])
             /\ bus[i - 2].ok
        /\ IsWrite(bus[i]) =>
             /\ i = 1 \/ (bus[i - 1].ev = "read" /\ bus[i - 1].ok)
             /\ bus[i].ok =>
                  /\ i + 2 <= Len(bus)
                  /\ bus[i + 1].ev = "sleep"
                  /\ bus[i + 2].ev = "read"
             /\ ~bus[i].ok => \A j \in (i + 1)..Len(bus) : bus[j].ev # "read"
        /\ bus[i].ev = "sleep" =>
             \/ i > 1 /\ IsWrite(bus[i - 1]) /\ bus[i - 1].ok
             \/ i = Len(bus) /\ step = "reset" /\ bus[i].arg = 1000

\* a whole run of initialize(): four exchanges and the settle sleep
C10_Witness ==
    /\ op \in InitOps
    /\ step = "reset"
    /\ Len(bus) = 13
    /\ bus[2] = SleepEv(1)
    /\ bus[8] = SleepEv(500)
    /\ bus[11] = SleepEv(50)

----------------------------------------------------------------------------
(* C11: a bus write or read that fails, in any exchange but that of the    *)
(* reset step, is the last bus event of the call: the call raises the      *)
(* transport's error to its caller, returns no value, and makes no further *)
(* write or read (no retry).                                               *)

\* event i of the log belongs to the reset exchange of a run of initialize()
InResetExchange(i) ==
    op \in InitOps /\ Len(WritesOf(SubSeq(bus, 1, i))) = 4

C11_TransportFailureSurfaces ==
    \A i \in 1..Len(bus) :
        (~bus[i].ok /\ ~InResetExchange(i)) =>
            /\ i = Len(bus)
            /\ exc = OSError
            /\ outcome = OSError
            /\ detail = << >>
            /\ pc = "idle"

\* the read of the self-test exchange failed
C11_Witness ==
    /\ op \in InitOps
    /\ step = "selftest"
    /\ bus[Len(bus)].ev = "read"
    /\ ~bus[Len(bus)].ok
    /\ outcome = OSError

\* the write of a raw_NOX call failed
C11_WriteFailSeen ==
    op = "raw_NOX" /\ bus = << WriteEv(measure_command, FALSE) >> /\ outcome = OSError

----------------------------------------------------------------------------
(* C12 as stated: a measure_index call with raw < 0 returns -1 and leaves  *)
(* the Index Algorithm handle as it was: nothing is constructed,           *)
(* initialised or processed, on the first call as on later ones.           *)
C12_NoAlgorithmCall ==
    [][ (op' = "measure_index" /\ args'[1] < 0) =>
            /\ detail' = << -1 >>
            /\ voc_algorithm' = voc_algorithm ]_vars

(* C12 as amended: a measure_index call with raw < 0 returns -1 and does   *)
(* not run the algorithm's process step; when the handle is still None     *)
(* (first call) the algorithm is constructed and initialised before raw is *)
(* tested; on later calls the handle and its state are left as they were.  *)
C12_NoProcessCall ==
    [][ (op' = "measure_index" /\ args'[1] < 0) =>
            /\ detail' = << -1 >>
            /\ outcome' = "returned"
            /\ bus' = << >>
            /\ voc_algorithm' = IF voc_algorithm = << >> THEN << 0 >>
                                ELSE voc_algorithm ]_vars

\* measure_index with raw < 0 has returned after the algorithm had processed
C12_Witness ==
    /\ op = "measure_index"
    /\ args = << -1 >>
    /\ detail = << -1 >>
    /\ voc_algorithm = << 1 >>

\* measure_index with raw < 0 was the first call and has set the algorithm up
C12_FirstCallSeen ==
    /\ op = "measure_index"
    /\ args = << -1 >>
    /\ voc_algorithm = << 0 >>

----------------------------------------------------------------------------
(* C13: compensate() makes no bus write, no read and no sleep, stores the  *)
(* frame of its arguments as the measure command, and leaves the command   *)
(* buffer, the algorithm handle and the initialization state as they were. *)
C13_CompensateFrame ==
    [][ op' = "compensate" =>
            /\ bus' = << >>
            /\ outcome' = "returned"
            /\ measure_command' = CompensatedCmd(args'[1], args'[2])
            /\ command_buffer' = command_buffer
            /\ cb_mutable' = cb_mutable
            /\ voc_algorithm' = voc_algorithm
            /\ pc' = pc
            /\ constructed' = constructed
            /\ init_failed' = init_failed ]_vars

\* compensate() was called while the command buffer held a frame left by a
\* failed measurement call, after the algorithm had been set up
C13_Witness ==
    /\ op = "compensate"
    /\ Len(command_buffer) = 8
    /\ command_buffer # measure_command
    /\ voc_algorithm # << >>

----------------------------------------------------------------------------
(* C14: the frame compensate(25, 50) stores is the default frame           *)
(* 26 19 80 00 A2 66 66 93, humidity word first, so the measure command    *)
(* has the same bytes as on a fresh object.                                *)
C14_DefaultFrame ==
    (op = "compensate" /\ args = << 25, 50 >>) =>
        /\ measure_command = << 38, 25, 128, 0, 162, 102, 102, 147 >>
        /\ measure_command = READ_CMD
        /\ SubSeq(measure_command, 3, 4) = relative_humidity_to_ticks(50)
        /\ SubSeq(measure_command, 6, 7) = celsius_to_ticks(25)

\* compensate(25, 50) has replaced the default bytes object by a bytearray
C14_Witness ==
    /\ op = "compensate"
    /\ args = << 25, 50 >>
    /\ mc_mutable
    /\ measure_command = READ_CMD

----------------------------------------------------------------------------
(* C15: every byte sequence written to the bus is a well-formed frame: two *)
(* bytes that are an initializer opcode, or eight bytes that are opcode    *)
(* 26 19 or 26 12 and two data words each followed by its CRC8.            *)
WellFormed(d) ==
    \/ Len(d) = 2 /\ d \in {SerialOpcode, FeatureOpcode, SelfTestOpcode, ResetOpcode}
    \/ /\ Len(d) = 8
       /\ SubSeq(d, 1, 2) \in { << 38, 25 >>, << 38, 18 >> }
       /\ d[5] = generate_crc(<< d[3], d[4] >>)
       /\ d[8] = generate_crc(<< d[6], d[7] >>)

C15_WellFormedWrites ==
    \A i \in 1..Len(bus) : IsWrite(bus[i]) => WellFormed(bus[i].data)

----------------------------------------------------------------------------
(* C16: after a raw_VOC, raw_NOX or conditioning call, returned or failed, *)
(* the command buffer is a new bytearray(2): two zero bytes, mutable, and  *)
(* not the object held as the measure command.                             *)
C16_BufferRestored ==
    op \in MeasureOps =>
        /\ command_buffer = << 0, 0 >>
        /\ cb_mutable
        /\ ~cb_alias

----------------------------------------------------------------------------
(* C17: for every 2-byte input _generate_crc returns, in 0..255, the value *)
(* of the generator with an 8-bit accumulator: start at 0xFF; for each     *)
(* byte XOR it in, then 8 times shift left one bit dropping the overflow   *)
(* and XOR 0x31 when the high bit was set. 66 66 gives 0x93, 80 00 gives   *)
(* 0xA2, 00 00 gives 0x81, FF FF gives 0xAC.                               *)
Crc8Round(acc) ==
    IF acc >= 128 THEN BitXor((acc * 2) % 256, 49) ELSE (acc * 2) % 256

RECURSIVE Crc8Rounds(_, _)
Crc8Rounds(acc, n) == IF n = 0 THEN acc ELSE Crc8Rounds(Crc8Round(acc), n - 1)

Crc8(b0, b1) == Crc8Rounds(BitXor(Crc8Rounds(BitXor(255, b0), 8), b1), 8)

C17_CrcRefinement ==
    (op = "generate_crc" /\ outcome = "returned") =>
        /\ detail = << Crc8(args[1], args[2]) >>
        /\ detail[1] \in 0..255
        /\ args = << 102, 102 >> => detail = << 147 >>
        /\ args = << 128, 0 >> => detail = << 162 >>
        /\ args = << 0, 0 >> => detail = << 129 >>
        /\ args = << 255, 255 >> => detail = << 172 >>

\* the CRC of FF FF has been returned (the accumulator passes 8 bits on the way)
C17_Witness ==
    /\ op = "generate_crc"
    /\ outcome = "returned"
    /\ args = << 255, 255 >>
    /\ detail = << 172 >>
    /\ CrcLoop(255, args, 1) > 255

----------------------------------------------------------------------------
(* C18 as stated: for every integer temperature _celsius_to_ticks returns  *)
(* the high and low byte of floor((temp + 45) * 65535 / 175) reduced to 16 *)
(* bits, both in 0..255; 25 gives 66 66, -45 gives 00 00, 130 gives FF FF. *)
HiLo(ticks) == << (ticks % 65536) \div 256, ticks % 256 >>

TickVectors(in, b25, b45, b130) ==
    /\ in = 25 => detail = b25
    /\ in = -45 => detail = b45
    /\ in = 130 => detail = b130

C18_CelsiusFloor ==
    (op = "celsius_to_ticks" /\ outcome = "returned") =>
        /\ detail = HiLo(((args[1] + 45) * 65535) \div 175)
        /\ detail[1] \in 0..255
        /\ detail[2] \in 0..255
        /\ TickVectors(args[1], << 102, 102 >>, << 0, 0 >>, << 255, 255 >>)

\* the quotient n / d rounded towards zero, from its floor
TowardsZero(n, d) ==
    IF n < 0 /\ n % d # 0 THEN (n \div d) + 1 ELSE n \div d

(* C18 as amended: the quotient is truncated towards zero, not floored:    *)
(* the same for every temperature from -45 up, one more than the floor     *)
(* below -45 wherever the quotient is not an integer.                      *)
C18_CelsiusTruncated ==
    (op = "celsius_to_ticks" /\ outcome = "returned") =>
        /\ detail = HiLo(TowardsZero((args[1] + 45) * 65535, 175))
        /\ args[1] >= -45 => detail = HiLo(((args[1] + 45) * 65535) \div 175)
        /\ detail[1] \in 0..255
        /\ detail[2] \in 0..255
        /\ TickVectors(args[1], << 102, 102 >>, << 0, 0 >>, << 255, 255 >>)

\* -46 degrees has been converted: FE 8A, where the floor gives FE 89
C18_Witness ==
    /\ op = "celsius_to_ticks"
    /\ outcome = "returned"
    /\ args = << -46 >>
    /\ detail = << 254, 138 >>

----------------------------------------------------------------------------
(* C19 as stated: for every integer humidity _relative_humidity_to_ticks   *)
(* returns the high and low byte of floor(rh * 65535 / 100 + 0.5) reduced  *)
(* to 16 bits, both in 0..255; 50 gives 80 00, 0 gives 00 00, 100 gives    *)
(* FF FF.                                                                  *)
HumidityVectors ==
    /\ args[1] = 50 => detail = << 128, 0 >>
    /\ args[1] = 0 => detail = << 0, 0 >>
    /\ args[1] = 100 => detail = << 255, 255 >>

C19_HumidityFloor ==
    (op = "relative_humidity_to_ticks" /\ outcome = "returned") =>
        /\ detail = HiLo((args[1] * 65535 + 50) \div 100)
        /\ detail[1] \in 0..255
        /\ detail[2] \in 0..255
        /\ HumidityVectors

(* C19 as amended: rh * 65535 / 100 + 0.5 is truncated towards zero, not   *)
(* floored: the same for every humidity from 0 up, one more than the floor *)
(* below 0 wherever the sum is not an integer.                             *)
C19_HumidityTruncated ==
    (op = "relative_humidity_to_ticks" /\ outcome = "returned") =>
        /\ detail = HiLo(TowardsZero(args[1] * 65535 + 50, 100))
        /\ args[1] >= 0 => detail = HiLo((args[1] * 65535 + 50) \div 100)
        /\ detail[1] \in 0..255
        /\ detail[2] \in 0..255
        /\ HumidityVectors

\* -1 percent has been converted: FD 72, where the floor gives FD 71
C19_Witness ==
    /\ op = "relative_humidity_to_ticks"
    /\ outcome = "returned"
    /\ args = << -1 >>
    /\ detail = << 253, 114 >>

====
